---------------------------- MODULE Spec2Model ----------------------------
(***************************************************************************)
(* Model of lib/cdk-custom-stack.ts: the CdkCustomStack constructor, which *)
(* declares a DynamoDB table, the Lambda execution role and function, a    *)
(* Cognito user pool / client / identity pool, the authenticated role and  *)
(* the HTTP API with its routes, followed by the behaviour the declared    *)
(* resources have once deployed (route authorization, role assumption,     *)
(* sign-up password validation, function invocation).                      *)
(*                                                                         *)
(* The constructor is a straight-line program; pc is its position and each *)
(* statement is one action.  Strings that the code only compares are kept  *)
(* as strings; URL paths are sequences of segments; IAM actions are        *)
(* records [service, name] so that wildcard matching can be computed.      *)
(***************************************************************************)
EXTENDS Integers, Sequences, FiniteSets, TLC

VARIABLES
    pc,                 \* position in the constructor, "deployed" at its end
    region,             \* this.region  (props.env.region)
    account,            \* this.account (props.env.account)
    table,              \* dynamodb.Table declaration
    lambdaRole,         \* iam.Role of the function, with its policy statements
    lambdaFunction,     \* lambda.Function declaration
    userPool,           \* cognito.UserPool declaration
    userPoolClient,     \* cognito.UserPoolClient declaration
    authorizer,         \* HttpUserPoolAuthorizer
    identityPool,       \* cognito.CfnIdentityPool declaration
    authenticatedRole,  \* iam.Role assumed by authenticated identities
    roleAttachment,     \* cognito.CfnIdentityPoolRoleAttachment
    httpApi,            \* apigateway.HttpApi with the routes added so far
    lambdaIntegration,  \* HttpLambdaIntegration
    routeIndex,         \* index of routes.forEach
    outputs,            \* cdk.CfnOutput values by output id
    items,              \* records held by the deployed table
    call                \* the operation in flight at the deployed stack

vars == << pc, region, account, table, lambdaRole, lambdaFunction, userPool,
           userPoolClient, authorizer, identityPool, authenticatedRole,
           roleAttachment, httpApi, lambdaIntegration, routeIndex, outputs,
           items, call >>

stackVars == << region, account, table, lambdaRole, lambdaFunction, userPool,
                userPoolClient, authorizer, identityPool, authenticatedRole,
                roleAttachment, httpApi, lambdaIntegration, routeIndex,
                outputs >>

-----------------------------------------------------------------------------
(* Values shared by the declarations *)

\* A construct that has not been created yet.
Undeclared == [kind |-> "undeclared"]

\* No operation is in flight.
Idle == [kind |-> "idle"]

\* The environments the stack can be instantiated in (props.env).
Regions == {"us-east-1", "sa-east-1"}

Accounts == {"111111111111"}

\* An ARN; the wildcard resource '*' is the ARN whose every part is "*".
Arn(service, reg, acct, resource) ==
    [service |-> service, region |-> reg, account |-> acct, resource |-> resource]

Wildcard == Arn("*", "*", "*", "*")

\* An IAM action 'service:name'; '*' is Action("*", "*").
Action(service, name) == [service |-> service, name |-> name]

\* IAM action matching: a statement's action pattern covers a concrete action.
ActionMatches(pattern, action) ==
    /\ pattern.service \in {"*", action.service}
    /\ pattern.name \in {"*", action.name}

\* IAM resource matching of a statement's resource against a concrete ARN.
ResourceMatches(pattern, arn) == pattern = Wildcard \/ pattern = arn

\* The elements of an array.
Range(seq) == {seq[i] : i \in 1..Len(seq)}

\* A CloudFormation reference to the construct with the given id; it resolves
\* to that resource's identifier and to no other resource's.
Ref(id) == "${" \o id \o "}"

-----------------------------------------------------------------------------
(* The declarations, in the order of the constructor *)

\* new dynamodb.Table(this, 'TabCustomCDK', {...})
TableDecl ==
    [id |-> "TabCustomCDK",
     tableName |-> "tab_custom_cdk",
     partitionKey |-> [name |-> "PK", type |-> "STRING"],
     sortKey |-> [name |-> "SK", type |-> "STRING"],
     billingMode |-> "PAY_PER_REQUEST"]

\* table.tableArn
tableArn == Arn("dynamodb", region, account, "table/" \o TableDecl.tableName)

\* new iam.Role(this, 'CustomCdkRoleLambda', {assumedBy: ServicePrincipal})
LambdaRoleDecl ==
    [id |-> "CustomCdkRoleLambda",
     assumedBy |-> [service |-> "lambda.amazonaws.com"],
     statements |-> << >>]

\* role.addToPolicy(statement)
AddToPolicy(role, statement) ==
    [role EXCEPT !.statements = Append(@, statement)]

DynamoStatementWildcard ==
    [effect |-> "Allow",
     resources |-> << Wildcard >>,
     actions |-> << Action("dynamodb", "*") >>]

\* The first statement added to the execution role.
DynamoStatement ==
    [effect |-> "Allow",
     resources |-> << tableArn >>,
     actions |-> << Action("dynamodb", "GetItem"),
                    Action("dynamodb", "PutItem"),
                    Action("dynamodb", "UpdateItem"),
                    Action("dynamodb", "DeleteItem"),
                    Action("dynamodb", "Scan"),
                    Action("dynamodb", "Query"),
                    Action("dynamodb", "BatchWriteItem") >>]

\* The second statement added to the execution role.
CognitoStatement ==
    [effect |-> "Allow",
     actions |-> << Action("cognito-idp", "*"), Action("cognito-identity", "*") >>,
     resources |-> << Wildcard >>]

\* The third statement added to the execution role.
LogsStatement ==
    [effect |-> "Allow",
     actions |-> << Action("logs", "CreateLogGroup"),
                    Action("logs", "CreateLogStream"),
                    Action("logs", "PutLogEvents") >>,
     resources |-> << Arn("logs", region, account, "log-group:/aws/lambda/*") >>]

timeoutInMinutes == 10 * 60

\* timeout: cdk.Duration.seconds(10), in seconds
timeout == 10

\* environment: {...} of the function declaration
InitialEnvironment ==
    [USER_POOL_ID |-> "Your USER_POOL_ID",
     REGION |-> " Your REGION",
     IDENTITY_POOL_ID |-> "Your IDENTITY_POOL_ID"]

\* new lambda.Function(this, 'CustomLambdaCdk', {...})
LambdaFunctionDecl ==
    [id |-> "CustomLambdaCdk",
     functionName |-> "custom_lambda_cdk",
     runtime |-> "python3.9",
     code |-> "hello_world",
     handler |-> "app.lambda_handler",
     role |-> lambdaRole.id,
     timeout |-> timeout,
     architecture |-> "x86_64",
     environment |-> InitialEnvironment]

AddEnvironmentReplacingAll(env, key, value) == (key :> value)

\* lambdaFunction.addEnvironment(key, value): sets one key of the map.
AddEnvironment(env, key, value) == (key :> value) @@ env

passwordPolicyNoSymbols ==
    [minLength |-> 8,
     requireLowercase |-> TRUE,
     requireUppercase |-> TRUE,
     requireDigits |-> TRUE,
     requireSymbols |-> FALSE,
     tempPasswordValidity |-> 7]

\* passwordPolicy: {...} of the user pool (tempPasswordValidity in days)
passwordPolicy ==
    [minLength |-> 8,
     requireLowercase |-> TRUE,
     requireUppercase |-> TRUE,
     requireDigits |-> TRUE,
     requireSymbols |-> TRUE,
     tempPasswordValidity |-> 7]

\* new cognito.UserPool(this, 'UserPool', {...})
UserPoolDecl ==
    [id |-> "UserPool",
     userPoolName |-> "cognito-cdk-angular",
     selfSignUpEnabled |-> TRUE,
     signInAliases |-> [email |-> TRUE],
     passwordPolicy |-> passwordPolicy,
     accountRecovery |-> "EMAIL_ONLY",
     mfa |-> "OFF",
     email |-> [fromEmail |-> "Your e-mail", sesRegion |-> "Your REGION"],
     userPoolId |-> Ref("UserPool"),
     userPoolProviderName |-> "cognito-idp/" \o Ref("UserPool")]

\* new cognito.UserPoolClient(this, 'UserPoolClient', {...})
\* (validities: access and id tokens in minutes, refresh token in days)
UserPoolClientDecl ==
    [id |-> "UserPoolClient",
     userPool |-> userPool.id,
     authFlows |-> [adminUserPassword |-> TRUE, custom |-> TRUE,
                    userPassword |-> TRUE, userSrp |-> TRUE],
     accessTokenValidity |-> 60,
     idTokenValidity |-> 60,
     refreshTokenValidity |-> 30,
     oAuth |-> [flows |-> [authorizationCodeGrant |-> TRUE],
                scopes |-> << "openid", "email", "profile" >>,
                callbackUrls |-> << "https://example.com/callback" >>],
     userPoolClientId |-> Ref("UserPoolClient")]

\* A route without an authorizer (HttpNoneAuthorizer).
NoAuthorizer == [id |-> "none", type |-> "NONE", issuer |-> "", audience |-> << >>]

HttpUserPoolAuthorizerAnyClient(pool, clients) ==
    [id |-> "UserPoolAuthorizer",
     type |-> "JWT",
     issuer |-> pool.userPoolId,
     audience |-> << Ref("UserPoolClient"), Ref("OtherUserPoolClient") >>]

\* new HttpUserPoolAuthorizer('UserPoolAuthorizer', userPool, {userPoolClients}):
\* a JWT authorizer whose issuer is the pool and whose audience is the clients.
HttpUserPoolAuthorizer(pool, clients) ==
    [id |-> "UserPoolAuthorizer",
     type |-> "JWT",
     issuer |-> pool.userPoolId,
     audience |-> [i \in 1..Len(clients) |-> clients[i].userPoolClientId]]

\* new cognito.CfnIdentityPool(this, 'IdentityPool', {...})
IdentityPoolDecl ==
    [id |-> "IdentityPool",
     identityPoolName |-> "CustomIdentityPool",
     allowUnauthenticatedIdentities |-> FALSE,
     cognitoIdentityProviders |->
         << [clientId |-> userPoolClient.userPoolClientId,
             providerName |-> userPool.userPoolProviderName] >>,
     ref |-> Ref("IdentityPool")]

\* A claim value or a condition pattern is a sequence of pieces of text; the
\* piece "*" in a pattern is the wildcard of StringLike.
Str(text) == << text >>

TrustConditionsAnySuffix ==
    [StringEquals |-> [key |-> "cognito-identity.amazonaws.com:aud",
                       value |-> identityPool.ref],
     ForAnyValueStringLike |-> [key |-> "cognito-identity.amazonaws.com:amr",
                                value |-> << "*", "authenticated" >>]]

\* The conditions of the FederatedPrincipal of the authenticated role.
TrustConditions ==
    [StringEquals |-> [key |-> "cognito-identity.amazonaws.com:aud",
                       value |-> identityPool.ref],
     ForAnyValueStringLike |-> [key |-> "cognito-identity.amazonaws.com:amr",
                                value |-> Str("authenticated")]]

\* new iam.Role(this, 'AuthenticatedRole', {assumedBy: FederatedPrincipal})
AuthenticatedRoleDecl ==
    [id |-> "AuthenticatedRole",
     assumedBy |-> [federated |-> "cognito-identity.amazonaws.com",
                    conditions |-> TrustConditions,
                    assumeRoleAction |-> "sts:AssumeRoleWithWebIdentity"],
     statements |-> << >>,
     roleArn |-> Ref("AuthenticatedRole.Arn")]

\* The statement added to the authenticated role.
AuthenticatedStatement ==
    [effect |-> "Allow",
     resources |-> << Wildcard >>,
     actions |-> << Action("*", "*") >>]

\* new cognito.CfnIdentityPoolRoleAttachment(this, ..., {...})
RoleAttachmentDecl ==
    [id |-> "IdentityPoolRoleAttachment",
     identityPoolId |-> identityPool.ref,
     roles |-> [authenticated |-> authenticatedRole.roleArn]]

\* new apigateway.HttpApi(this, 'CustomHttpApiCdk', {...}) (maxAge in days)
HttpApiDecl ==
    [id |-> "CustomHttpApiCdk",
     apiName |-> "CustomHttpApiCdk",
     corsPreflight |-> [allowHeaders |-> << "*" >>,
                        allowMethods |-> << "*" >>,
                        allowOrigins |-> << "*" >>,
                        maxAge |-> 10],
     routes |-> << >>,
     apiEndpoint |-> Ref("CustomHttpApiCdk.Endpoint")]

\* new integrations.HttpLambdaIntegration('LambdaIntegration', lambdaFunction)
LambdaIntegrationDecl ==
    [id |-> "LambdaIntegration", handler |-> lambdaFunction.id]

routesWithoutDeleteTask ==
    << [path |-> << "items" >>, method |-> "POST"],
       [path |-> << "items" >>, method |-> "GET"],
       [path |-> << "items", "{listID}" >>, method |-> "GET"],
       [path |-> << "items", "{listID}" >>, method |-> "PATCH"],
       [path |-> << "items", "{listID}", "status" >>, method |-> "PATCH"],
       [path |-> << "items", "{listID}", "{taskID}", "status" >>, method |-> "PATCH"],
       [path |-> << "items", "{listID}" >>, method |-> "DELETE"] >>

\* const routes = [...]: a path is the sequence of its segments
routes ==
    << [path |-> << "items" >>, method |-> "POST"],
       [path |-> << "items" >>, method |-> "GET"],
       [path |-> << "items", "{listID}" >>, method |-> "GET"],
       [path |-> << "items", "{listID}" >>, method |-> "PATCH"],
       [path |-> << "items", "{listID}", "status" >>, method |-> "PATCH"],
       [path |-> << "items", "{listID}", "{taskID}", "status" >>, method |-> "PATCH"],
       [path |-> << "items", "{listID}" >>, method |-> "DELETE"],
       [path |-> << "items", "{listID}", "{taskID}" >>, method |-> "DELETE"] >>

RouteOptionsWithoutAuthorizer(route) ==
    [path |-> route.path,
     methods |-> << route.method >>,
     integration |-> lambdaIntegration,
     authorizer |-> NoAuthorizer]

\* The argument of httpApi.addRoutes in the body of routes.forEach.
RouteOptions(route) ==
    [path |-> route.path,
     methods |-> << route.method >>,
     integration |-> lambdaIntegration,
     authorizer |-> authorizer]

\* httpApi.addRoutes(options): one route per method of the options.
AddRoutes(api, options) ==
    [api EXCEPT !.routes =
        @ \o [i \in 1..Len(options.methods) |->
                 [path |-> options.path,
                  method |-> options.methods[i],
                  integration |-> options.integration,
                  authorizer |-> options.authorizer]]]

-----------------------------------------------------------------------------
(* The constructor *)

Init ==
    /\ pc = "table"
    /\ region \in Regions
    /\ account \in Accounts
    /\ table = Undeclared
    /\ lambdaRole = Undeclared
    /\ lambdaFunction = Undeclared
    /\ userPool = Undeclared
    /\ userPoolClient = Undeclared
    /\ authorizer = Undeclared
    /\ identityPool = Undeclared
    /\ authenticatedRole = Undeclared
    /\ roleAttachment = Undeclared
    /\ httpApi = Undeclared
    /\ lambdaIntegration = Undeclared
    /\ routeIndex = 1
    /\ outputs = << >>
    /\ items = {}
    /\ call = Idle

NewTable ==
    /\ pc = "table"
    /\ table' = TableDecl
    /\ pc' = "lambdaRole"
    /\ UNCHANGED << region, account, lambdaRole, lambdaFunction, userPool,
                    userPoolClient, authorizer, identityPool, authenticatedRole,
                    roleAttachment, httpApi, lambdaIntegration, routeIndex,
                    outputs, items, call >>

NewLambdaRole ==
    /\ pc = "lambdaRole"
    /\ lambdaRole' = LambdaRoleDecl
    /\ pc' = "dynamoPolicy"
    /\ UNCHANGED << region, account, table, lambdaFunction, userPool,
                    userPoolClient, authorizer, identityPool, authenticatedRole,
                    roleAttachment, httpApi, lambdaIntegration, routeIndex,
                    outputs, items, call >>

\* One lambdaRole.addToPolicy call of the constructor.
LambdaRoleAddToPolicy(at, statement, next) ==
    /\ pc = at
    /\ lambdaRole' = AddToPolicy(lambdaRole, statement)
    /\ pc' = next
    /\ UNCHANGED << region, account, table, lambdaFunction, userPool,
                    userPoolClient, authorizer, identityPool, authenticatedRole,
                    roleAttachment, httpApi, lambdaIntegration, routeIndex,
                    outputs, items, call >>

AddDynamoPolicy == LambdaRoleAddToPolicy("dynamoPolicy", DynamoStatement, "cognitoPolicy")

AddCognitoPolicy == LambdaRoleAddToPolicy("cognitoPolicy", CognitoStatement, "logsPolicy")

AddLogsPolicy == LambdaRoleAddToPolicy("logsPolicy", LogsStatement, "lambdaFunction")

NewLambdaFunction ==
    /\ pc = "lambdaFunction"
    /\ lambdaFunction' = LambdaFunctionDecl
    /\ pc' = "userPool"
    /\ UNCHANGED << region, account, table, lambdaRole, userPool,
                    userPoolClient, authorizer, identityPool, authenticatedRole,
                    roleAttachment, httpApi, lambdaIntegration, routeIndex,
                    outputs, items, call >>

NewUserPool ==
    /\ pc = "userPool"
    /\ userPool' = UserPoolDecl
    /\ pc' = "userPoolClient"
    /\ UNCHANGED << region, account, table, lambdaRole, lambdaFunction,
                    userPoolClient, authorizer, identityPool, authenticatedRole,
                    roleAttachment, httpApi, lambdaIntegration, routeIndex,
                    outputs, items, call >>

NewUserPoolClient ==
    /\ pc = "userPoolClient"
    /\ userPoolClient' = UserPoolClientDecl
    /\ pc' = "authorizer"
    /\ UNCHANGED << region, account, table, lambdaRole, lambdaFunction, userPool,
                    authorizer, identityPool, authenticatedRole,
                    roleAttachment, httpApi, lambdaIntegration, routeIndex,
                    outputs, items, call >>

NewAuthorizer ==
    /\ pc = "authorizer"
    /\ authorizer' = HttpUserPoolAuthorizer(userPool, << userPoolClient >>)
    /\ pc' = "identityPool"
    /\ UNCHANGED << region, account, table, lambdaRole, lambdaFunction, userPool,
                    userPoolClient, identityPool, authenticatedRole,
                    roleAttachment, httpApi, lambdaIntegration, routeIndex,
                    outputs, items, call >>

NewIdentityPool ==
    /\ pc = "identityPool"
    /\ identityPool' = IdentityPoolDecl
    /\ pc' = "authenticatedRole"
    /\ UNCHANGED << region, account, table, lambdaRole, lambdaFunction, userPool,
                    userPoolClient, authorizer, authenticatedRole,
                    roleAttachment, httpApi, lambdaIntegration, routeIndex,
                    outputs, items, call >>

NewAuthenticatedRole ==
    /\ pc = "authenticatedRole"
    /\ authenticatedRole' = AuthenticatedRoleDecl
    /\ pc' = "authenticatedPolicy"
    /\ UNCHANGED << region, account, table, lambdaRole, lambdaFunction, userPool,
                    userPoolClient, authorizer, identityPool,
                    roleAttachment, httpApi, lambdaIntegration, routeIndex,
                    outputs, items, call >>

AddAuthenticatedPolicy ==
    /\ pc = "authenticatedPolicy"
    /\ authenticatedRole' = AddToPolicy(authenticatedRole, AuthenticatedStatement)
    /\ pc' = "roleAttachment"
    /\ UNCHANGED << region, account, table, lambdaRole, lambdaFunction, userPool,
                    userPoolClient, authorizer, identityPool,
                    roleAttachment, httpApi, lambdaIntegration, routeIndex,
                    outputs, items, call >>

NewRoleAttachment ==
    /\ pc = "roleAttachment"
    /\ roleAttachment' = RoleAttachmentDecl
    /\ pc' = "addEnvironment"
    /\ UNCHANGED << region, account, table, lambdaRole, lambdaFunction, userPool,
                    userPoolClient, authorizer, identityPool, authenticatedRole,
                    httpApi, lambdaIntegration, routeIndex,
                    outputs, items, call >>

\* lambdaFunction.addEnvironment('IDENTITY_POOL_ID', identityPool.ref)
SetIdentityPoolId ==
    /\ pc = "addEnvironment"
    /\ lambdaFunction' =
           [lambdaFunction EXCEPT
               !.environment = AddEnvironment(@, "IDENTITY_POOL_ID", identityPool.ref)]
    /\ pc' = "httpApi"
    /\ UNCHANGED << region, account, table, lambdaRole, userPool,
                    userPoolClient, authorizer, identityPool, authenticatedRole,
                    roleAttachment, httpApi, lambdaIntegration, routeIndex,
                    outputs, items, call >>

NewHttpApi ==
    /\ pc = "httpApi"
    /\ httpApi' = HttpApiDecl
    /\ pc' = "lambdaIntegration"
    /\ UNCHANGED << region, account, table, lambdaRole, lambdaFunction, userPool,
                    userPoolClient, authorizer, identityPool, authenticatedRole,
                    roleAttachment, lambdaIntegration, routeIndex,
                    outputs, items, call >>

NewLambdaIntegration ==
    /\ pc = "lambdaIntegration"
    /\ lambdaIntegration' = LambdaIntegrationDecl
    /\ pc' = "routes"
    /\ UNCHANGED << region, account, table, lambdaRole, lambdaFunction, userPool,
                    userPoolClient, authorizer, identityPool, authenticatedRole,
                    roleAttachment, httpApi, routeIndex,
                    outputs, items, call >>

\* One iteration of routes.forEach.
ForEachRoute ==
    /\ pc = "routes"
    /\ routeIndex <= Len(routes)
    /\ httpApi' = AddRoutes(httpApi, RouteOptions(routes[routeIndex]))
    /\ routeIndex' = routeIndex + 1
    /\ UNCHANGED << pc, region, account, table, lambdaRole, lambdaFunction, userPool,
                    userPoolClient, authorizer, identityPool, authenticatedRole,
                    roleAttachment, lambdaIntegration,
                    outputs, items, call >>

\* routes.forEach returns once every element has been visited.
ForEachDone ==
    /\ pc = "routes"
    /\ routeIndex > Len(routes)
    /\ pc' = "outputCustomApi"
    /\ UNCHANGED << stackVars, items, call >>

\* new cdk.CfnOutput(this, id, {value})
NewCfnOutput(at, id, value, next) ==
    /\ pc = at
    /\ outputs' = (id :> value) @@ outputs
    /\ pc' = next
    /\ UNCHANGED << region, account, table, lambdaRole, lambdaFunction, userPool,
                    userPoolClient, authorizer, identityPool, authenticatedRole,
                    roleAttachment, httpApi, lambdaIntegration, routeIndex,
                    items, call >>

OutputCustomApi ==
    NewCfnOutput("outputCustomApi", "CustomApi", httpApi.apiEndpoint,
                 "outputCustomFunctionArn")

OutputCustomFunctionArn ==
    NewCfnOutput("outputCustomFunctionArn", "CustomFunctionArn",
                 Ref(lambdaFunction.id \o ".Arn"), "outputCustomFunctionIamRole")

OutputCustomFunctionIamRole ==
    NewCfnOutput("outputCustomFunctionIamRole", "CustomFunctionIamRole",
                 Ref(lambdaRole.id \o ".Arn"), "outputIdentityPoolId")

OutputIdentityPoolId ==
    NewCfnOutput("outputIdentityPoolId", "IdentityPoolId", identityPool.ref,
                 "outputUserPoolId")

OutputUserPoolId ==
    NewCfnOutput("outputUserPoolId", "UserPoolId", userPool.userPoolId,
                 "outputUserPoolClientId")

OutputUserPoolClientId ==
    NewCfnOutput("outputUserPoolClientId", "UserPoolClientId",
                 userPoolClient.userPoolClientId, "deployed")

\* The statements of the constructor.
Construct ==
    \/ NewTable
    \/ NewLambdaRole
    \/ AddDynamoPolicy
    \/ AddCognitoPolicy
    \/ AddLogsPolicy
    \/ NewLambdaFunction
    \/ NewUserPool
    \/ NewUserPoolClient
    \/ NewAuthorizer
    \/ NewIdentityPool
    \/ NewAuthenticatedRole
    \/ AddAuthenticatedPolicy
    \/ NewRoleAttachment
    \/ SetIdentityPoolId
    \/ NewHttpApi
    \/ NewLambdaIntegration
    \/ ForEachRoute
    \/ ForEachDone
    \/ OutputCustomApi
    \/ OutputCustomFunctionArn
    \/ OutputCustomFunctionIamRole
    \/ OutputIdentityPoolId
    \/ OutputUserPoolId
    \/ OutputUserPoolClientId

-----------------------------------------------------------------------------
(* The deployed HTTP API: route selection and the JWT authorizer *)

\* Longest request path the model sends.
MaxPathLen == 4

\* Segments of request paths: the two literal segments of the routes and an
\* identifier standing for any list or task id.
Segments == {"items", "status", "id1"}

Methods == {"GET", "POST", "PATCH", "DELETE", "PUT"}

RECURSIVE PathsOfLen(_)
PathsOfLen(n) ==
    IF n = 0 THEN {<< >>}
    ELSE {Append(q, seg) : q \in PathsOfLen(n - 1), seg \in Segments}

Paths == UNION {PathsOfLen(n) : n \in 1..MaxPathLen}

\* The bearer token of a request; NoToken is a request without one.
NoToken == [present |-> FALSE, iss |-> "", aud |-> "", expired |-> FALSE]

BearerTokens ==
    {NoToken} \cup
    [present : {TRUE},
     iss : {Ref("UserPool"), Ref("OtherUserPool")},
     aud : {Ref("UserPoolClient"), Ref("OtherUserPoolClient")},
     expired : BOOLEAN]

\* The path parameters the routes use.
PathVariables == {"{listID}", "{taskID}"}

\* A route's path template matches a request path segment by segment.
PathMatches(template, path) ==
    /\ Len(template) = Len(path)
    /\ \A i \in 1..Len(template) :
          template[i] \in PathVariables \/ template[i] = path[i]

\* Number of literal segments of a template.
Literals(template) == Cardinality({i \in 1..Len(template) : template[i] \notin PathVariables})

\* Indices of the routes of the API that match a request.
MatchingRoutes(api, path, method) ==
    {i \in 1..Len(api.routes) :
        api.routes[i].method = method /\ PathMatches(api.routes[i].path, path)}

\* The route a request is routed to: the most specific match; 0 if none.
SelectRoute(api, path, method) ==
    LET m == MatchingRoutes(api, path, method)
    IN  IF m = {} THEN 0
        ELSE CHOOSE i \in m :
                \A j \in m : Literals(api.routes[i].path) >= Literals(api.routes[j].path)

\* The JWT authorizer accepts a token issued by its issuer for one of its
\* audiences that has not expired.
JwtAccepts(auth, token) ==
    /\ token.present
    /\ token.iss = auth.issuer
    /\ token.aud \in Range(auth.audience)
    /\ ~token.expired

\* A route lets a request through when it has no authorizer or its authorizer
\* accepts the request's token.
RouteAuthorizes(route, token) ==
    route.authorizer.type = "JWT" => JwtAccepts(route.authorizer, token)

\* The operation in flight has its outcome.
CallDone ==
    \/ call.kind = "http" /\ call.stage = "responded"
    \/ call.kind = "sts"
    \/ call.kind = "signup" /\ call.stage = "submitted"

\* The client takes the outcome; the stack is ready for the next operation.
Complete ==
    /\ CallDone
    /\ call' = Idle
    /\ UNCHANGED << pc, stackVars, items >>

\* A client sends a request to the API endpoint.
HttpRequest ==
    /\ pc = "deployed"
    /\ call = Idle
    /\ \E path \in Paths, method \in Methods, token \in BearerTokens :
          call' = [kind |-> "http", path |-> path, method |-> method, token |-> token,
                   stage |-> "received", route |-> 0, invocations |-> 0,
                   elapsed |-> 0, response |-> "none"]
    /\ UNCHANGED << pc, stackVars, items >>

\* The API selects the route and runs its authorizer: 404 without a route,
\* 401 when the authorizer refuses, otherwise on to the integration.
RouteRequest ==
    /\ call.kind = "http"
    /\ call.stage = "received"
    /\ LET r == SelectRoute(httpApi, call.path, call.method)
       IN  call' =
             IF r = 0
             THEN [call EXCEPT !.stage = "responded", !.response = "404"]
             ELSE IF ~RouteAuthorizes(httpApi.routes[r], call.token)
             THEN [call EXCEPT !.stage = "responded", !.route = r, !.response = "401"]
             ELSE [call EXCEPT !.stage = "authorized", !.route = r]
    /\ UNCHANGED << pc, stackVars, items >>

\* The route's integration invokes the function it was created for.
InvokeIntegration ==
    /\ call.kind = "http"
    /\ call.stage = "authorized"
    /\ httpApi.routes[call.route].integration.handler = lambdaFunction.id
    /\ call' = [call EXCEPT !.stage = "invoking",
                            !.invocations = @ + 1,
                            !.elapsed = 0]
    /\ UNCHANGED << pc, stackVars, items >>

-----------------------------------------------------------------------------
(* The function: its handler (hello_world/app.lambda_handler) is not part  *)
(* of the stack's source; an invocation runs for some time, may write to   *)
(* the table with the permissions of its role, and returns or is aborted   *)
(* at the function's timeout.                                              *)

\* Keys of the records the handler writes.
Keys == [PK : {"pk1"}, SK : {"sk1", "sk2"}]

\* The role's policy allows an action on a resource.
RoleAllows(role, action, arn) ==
    \E i \in 1..Len(role.statements) :
        /\ role.statements[i].effect = "Allow"
        /\ \E a \in Range(role.statements[i].actions) : ActionMatches(a, action)
        /\ \E r \in Range(role.statements[i].resources) : ResourceMatches(r, arn)

\* One second of the invocation passes.
Tick ==
    /\ call.kind = "http"
    /\ call.stage = "invoking"
    /\ call.elapsed < lambdaFunction.timeout
    /\ call' = [call EXCEPT !.elapsed = @ + 1]
    /\ UNCHANGED << pc, stackVars, items >>

\* The handler puts a record into the table.
HandlerPutItem ==
    /\ call.kind = "http"
    /\ call.stage = "invoking"
    /\ call.elapsed < lambdaFunction.timeout
    /\ RoleAllows(lambdaRole, Action("dynamodb", "PutItem"), tableArn)
    /\ \E key \in Keys \ items : items' = items \cup {key}
    /\ UNCHANGED << pc, stackVars, call >>

\* The handler returns before the timeout.
HandlerReturn ==
    /\ call.kind = "http"
    /\ call.stage = "invoking"
    /\ call.elapsed < lambdaFunction.timeout
    /\ call' = [call EXCEPT !.stage = "responded", !.response = "200"]
    /\ UNCHANGED << pc, stackVars, items >>

\* The invocation reaches the timeout and is aborted.
TimeoutAbort ==
    /\ call.kind = "http"
    /\ call.stage = "invoking"
    /\ call.elapsed = lambdaFunction.timeout
    /\ call' = [call EXCEPT !.stage = "responded", !.response = "timeout"]
    /\ UNCHANGED << pc, stackVars, items >>

-----------------------------------------------------------------------------
(* Assuming the authenticated role *)

\* StringLike: the pattern's pieces match the value's, "*" matching any run.
RECURSIVE StringLike(_, _)
StringLike(value, pattern) ==
    IF pattern = << >> THEN value = << >>
    ELSE IF Head(pattern) = "*"
         THEN \/ StringLike(value, Tail(pattern))
              \/ value # << >> /\ StringLike(Tail(value), pattern)
         ELSE /\ value # << >>
              /\ Head(value) = Head(pattern)
              /\ StringLike(Tail(value), Tail(pattern))

\* Values a token's amr claim can hold.
AmrValues == { Str("authenticated"), << "un", "authenticated" >>, Str("cognito-idp") }

\* Web identity tokens presented to sts:AssumeRoleWithWebIdentity.
WebIdentityTokens ==
    [provider : {"cognito-identity.amazonaws.com", "accounts.google.com"},
     aud : {Ref("IdentityPool"), Ref("OtherIdentityPool")},
     amr : SUBSET AmrValues]

\* The trust policy of a role allows the action for the token: the federated
\* principal is the token's provider and every condition holds.
TrustPolicyAllows(principal, action, token) ==
    /\ action = principal.assumeRoleAction
    /\ token.provider = principal.federated
    /\ token.aud = principal.conditions.StringEquals.value
    /\ \E v \in token.amr :
          StringLike(v, principal.conditions.ForAnyValueStringLike.value)

\* A client asks for the authenticated role's credentials.
AssumeRoleWithWebIdentity ==
    /\ pc = "deployed"
    /\ call = Idle
    /\ \E token \in WebIdentityTokens :
          call' = [kind |-> "sts", token |-> token,
                   result |-> IF TrustPolicyAllows(authenticatedRole.assumedBy,
                                                   "sts:AssumeRoleWithWebIdentity", token)
                              THEN "credentials" ELSE "AccessDenied"]
    /\ UNCHANGED << pc, stackVars, items >>

-----------------------------------------------------------------------------
(* Self-service sign-up: the password policy of the user pool *)

\* Longest password the model types.
MaxPwLen == 8

Lowercase == {"a"}

Uppercase == {"A"}

Digits == {"1"}

Symbols == {"!"}

Characters == Lowercase \cup Uppercase \cup Digits \cup Symbols

\* A password has a character of the class.
Has(password, class) == \E i \in 1..Len(password) : password[i] \in class

\* The pool accepts a password that satisfies every requirement of the policy.
PasswordAccepted(policy, password) ==
    /\ Len(password) >= policy.minLength
    /\ policy.requireLowercase => Has(password, Lowercase)
    /\ policy.requireUppercase => Has(password, Uppercase)
    /\ policy.requireDigits => Has(password, Digits)
    /\ policy.requireSymbols => Has(password, Symbols)

\* The user types one more character of the password of a sign-up form.
TypeCharacter ==
    /\ pc = "deployed"
    /\ userPool.selfSignUpEnabled
    /\ \E c \in Characters :
          \/ /\ call = Idle
             /\ call' = [kind |-> "signup", stage |-> "typing", password |-> << c >>]
          \/ /\ call.kind = "signup"
             /\ call.stage = "typing"
             /\ Len(call.password) < MaxPwLen
             /\ call' = [call EXCEPT !.password = Append(@, c)]
    /\ UNCHANGED << pc, stackVars, items >>

\* The user submits the form; the pool checks the password against its policy
\* and creates the account, unconfirmed, when it passes.
SignUp ==
    /\ call.kind = "signup"
    /\ call.stage = "typing"
    /\ call' = [kind |-> "signup", stage |-> "submitted",
                result |-> IF PasswordAccepted(userPool.passwordPolicy, call.password)
                           THEN "UNCONFIRMED" ELSE "InvalidPasswordException"]
    /\ UNCHANGED << pc, stackVars, items >>

-----------------------------------------------------------------------------
(* Specifications *)

\* The constructor, then requests to the API and to STS.
Next ==
    \/ Construct
    \/ HttpRequest
    \/ RouteRequest
    \/ InvokeIntegration
    \/ Tick
    \/ HandlerPutItem
    \/ HandlerReturn
    \/ TimeoutAbort
    \/ AssumeRoleWithWebIdentity
    \/ Complete

Spec == Init /\ [][Next]_vars

\* The constructor in one environment, then sign-ups.
InitSignUp == Init /\ region = "us-east-1" /\ account = "111111111111"

NextSignUp ==
    \/ Construct
    \/ TypeCharacter
    \/ SignUp
    \/ Complete

SpecSignUp == InitSignUp /\ [][NextSignUp]_vars

-----------------------------------------------------------------------------
(* Properties *)

\* The eight (path, method) pairs of the HTTP surface.
DocumentedRoutes ==
    { << << "items" >>, "POST" >>,
      << << "items" >>, "GET" >>,
      << << "items", "{listID}" >>, "GET" >>,
      << << "items", "{listID}" >>, "PATCH" >>,
      << << "items", "{listID}", "status" >>, "PATCH" >>,
      << << "items", "{listID}", "{taskID}", "status" >>, "PATCH" >>,
      << << "items", "{listID}" >>, "DELETE" >>,
      << << "items", "{listID}", "{taskID}" >>, "DELETE" >> }

\* A request is to one of the documented pairs.
ToDocumentedRoute(path, method) ==
    \E pair \in DocumentedRoutes : pair[2] = method /\ PathMatches(pair[1], path)

\* A token issued by the stack's user pool for the stack's client, not expired.
ValidToken(token) ==
    /\ token.present
    /\ token.iss = Ref("UserPool")
    /\ token.aud = Ref("UserPoolClient")
    /\ ~token.expired

\* C1: every route the constructor has added to the HTTP API carries the
\* user-pool JWT authorizer; no route is public.
EveryRouteHasAuthorizer ==
    httpApi # Undeclared =>
        \A i \in 1..Len(httpApi.routes) :
            /\ httpApi.routes[i].authorizer = authorizer
            /\ httpApi.routes[i].authorizer.type = "JWT"
            /\ httpApi.routes[i].authorizer.issuer = userPool.userPoolId

\* C1 witness: the constructor has run and added all its routes.
AllRoutesAdded ==
    /\ pc = "deployed"
    /\ Len(httpApi.routes) = Len(routes)
    /\ Len(httpApi.routes) > 0

\* C2: the function is invoked, and the table written, only for a request whose
\* token the authorizer accepted: a request to a documented route is passed on
\* to the function when its token is valid and answered 401 without any
\* invocation when it has no token or an invalid one.
InvokedOnlyWhenAuthorized ==
    [][ /\ (call'.kind = "http" /\ call'.invocations > 0) => ValidToken(call'.token)
        /\ (call'.kind = "http" /\ call'.stage \in {"authorized", "invoking"})
              => ValidToken(call'.token)
        /\ items' # items => (call.kind = "http" /\ ValidToken(call.token))
        /\ ( /\ call.kind = "http"
             /\ call.stage = "received"
             /\ ToDocumentedRoute(call.path, call.method)
             /\ call' # call )
              => IF ValidToken(call.token)
                 THEN call'.stage = "authorized"
                 ELSE /\ call'.stage = "responded"
                      /\ call'.response = "401"
                      /\ call'.invocations = 0
        /\ (call.kind = "http" /\ call.stage = "authorized" /\ call' # call)
              => (call'.stage = "invoking" /\ call'.invocations = 1)
      ]_vars

\* C2 witness: POST /items without a token has been refused, after an earlier
\* authorized request had the function write a record.
UnauthenticatedPostRefused ==
    /\ call.kind = "http"
    /\ call.path = << "items" >>
    /\ call.method = "POST"
    /\ call.token = NoToken
    /\ call.stage = "responded"
    /\ call.response = "401"
    /\ items # {}

\* C3: the execution role's data-store statement grants exactly the seven
\* actions on exactly the declared table's ARN, and no statement of the role
\* grants a dynamodb action on the wildcard resource.
ExecutionRoleScopedToTable ==
    (lambdaRole # Undeclared /\ Len(lambdaRole.statements) >= 1) =>
        /\ Range(lambdaRole.statements[1].actions) =
              { Action("dynamodb", n) :
                  n \in {"GetItem", "PutItem", "UpdateItem", "DeleteItem",
                         "Scan", "Query", "BatchWriteItem"} }
        /\ Range(lambdaRole.statements[1].resources) =
              { Arn("dynamodb", region, account, "table/tab_custom_cdk") }
        /\ \A i \in 1..Len(lambdaRole.statements) :
              (\E a \in Range(lambdaRole.statements[i].actions) :
                  a.service \in {"dynamodb", "*"})
              => Wildcard \notin Range(lambdaRole.statements[i].resources)

\* C3 witness: the role holds its three statements in the deployed stack.
ExecutionRoleComplete ==
    /\ pc = "deployed"
    /\ Len(lambdaRole.statements) = 3

\* C4: the authenticated role is assumed only with a token whose audience is
\* the declared identity pool and whose amr claim holds 'authenticated'; a
\* token of another pool or without that amr value is denied.
AuthenticatedRoleOnlyForThisPool ==
    call.kind = "sts" =>
        /\ call.result = "credentials" =>
              /\ call.token.aud = identityPool.ref
              /\ call.token.aud = Ref("IdentityPool")
              /\ Str("authenticated") \in call.token.amr
        /\ call.token.aud # identityPool.ref => call.result = "AccessDenied"
        /\ Str("authenticated") \notin call.token.amr => call.result = "AccessDenied"

\* C4 witness: a token of the declared pool with the authenticated amr value
\* obtained the role's credentials.
AuthenticatedRoleAssumed ==
    /\ call.kind = "sts"
    /\ call.result = "credentials"

\* C5: a sign-up is accepted only with a password of at least 8 characters
\* holding a lowercase letter, an uppercase letter, a digit and a symbol; a
\* shorter password or one missing a class is rejected.
PasswordPolicyEnforced ==
    [][ ( /\ call.kind = "signup"
          /\ call.stage = "typing"
          /\ call'.kind = "signup"
          /\ call'.stage = "submitted" )
        => /\ call'.result = "UNCONFIRMED" =>
                 /\ Len(call.password) >= 8
                 /\ Has(call.password, Lowercase)
                 /\ Has(call.password, Uppercase)
                 /\ Has(call.password, Digits)
                 /\ Has(call.password, Symbols)
           /\ ( \/ Len(call.password) < 8
                \/ ~Has(call.password, Lowercase)
                \/ ~Has(call.password, Uppercase)
                \/ ~Has(call.password, Digits)
                \/ ~Has(call.password, Symbols) )
              => call'.result = "InvalidPasswordException"
      ]_vars

\* C5 witness: a sign-up has been accepted.
SignUpAccepted ==
    /\ call.kind = "signup"
    /\ call.stage = "submitted"
    /\ call.result = "UNCONFIRMED"

\* C6: the routes of the deployed API are exactly the eight documented pairs,
\* each bound to the one integration of the function and to the one authorizer.
RoutesAreTheDocumentedEight ==
    pc = "deployed" =>
        /\ Len(httpApi.routes) = 8
        /\ { << httpApi.routes[i].path, httpApi.routes[i].method >> :
                i \in 1..Len(httpApi.routes) } = DocumentedRoutes
        /\ \A i \in 1..Len(httpApi.routes) :
              /\ httpApi.routes[i].integration = lambdaIntegration
              /\ httpApi.routes[i].integration.handler = lambdaFunction.id
              /\ httpApi.routes[i].authorizer = authorizer

\* C6 witness: the deployed API routes DELETE /items/{listID}/{taskID}, the
\* last pair of the list.
LastRouteDeployed ==
    /\ pc = "deployed"
    /\ \E i \in 1..Len(httpApi.routes) :
          /\ httpApi.routes[i].path = << "items", "{listID}", "{taskID}" >>
          /\ httpApi.routes[i].method = "DELETE"

\* C7: in the deployed stack the function's USER_POOL_ID, REGION and
\* IDENTITY_POOL_ID are the identifiers of the user pool, the region and the
\* identity pool; none is a placeholder.
EnvironmentHoldsRealIdentifiers ==
    pc = "deployed" =>
        /\ lambdaFunction.environment["USER_POOL_ID"] = userPool.userPoolId
        /\ lambdaFunction.environment["REGION"] = region
        /\ lambdaFunction.environment["IDENTITY_POOL_ID"] = identityPool.ref

\* C9: a request passed to the integration causes exactly one invocation, a
\* refused or unrouted one none; an invocation never runs past 10 seconds, can
\* always end, and ends with the handler's response before the timeout or with
\* a timeout error at it.
InvocationEndsWithinTimeout ==
    call.kind = "http" =>
        /\ call.invocations <= 1
        /\ call.elapsed <= 10
        /\ call.stage = "authorized" => (call.invocations = 0 /\ ENABLED InvokeIntegration)
        /\ call.stage = "invoking" =>
              /\ call.invocations = 1
              /\ ENABLED (HandlerReturn \/ TimeoutAbort)
              /\ call.elapsed = 10 => ~ENABLED (Tick \/ HandlerReturn \/ HandlerPutItem)
        /\ call.stage = "responded" =>
              /\ call.response \in {"200", "timeout", "401", "404"}
              /\ call.response \in {"200", "timeout"} <=> call.invocations = 1
              /\ call.response = "timeout" => call.elapsed = 10
              /\ call.response = "200" => call.elapsed < 10

\* C9 witness: an invocation was aborted at the timeout and the caller has the
\* timeout error.
InvocationTimedOut ==
    /\ call.kind = "http"
    /\ call.stage = "responded"
    /\ call.response = "timeout"
    /\ call.invocations = 1

\* C10: addEnvironment replaces the initial IDENTITY_POOL_ID by the identity
\* pool's identifier and leaves USER_POOL_ID and REGION at their initial
\* values; the same identifier is the IdentityPoolId output and the audience
\* of the authenticated role's trust condition.
IdentityPoolIdSetEverywhere ==
    /\ lambdaFunction # Undeclared =>
          /\ DOMAIN lambdaFunction.environment =
                {"USER_POOL_ID", "REGION", "IDENTITY_POOL_ID"}
          /\ lambdaFunction.environment["USER_POOL_ID"] = "Your USER_POOL_ID"
          /\ lambdaFunction.environment["REGION"] = " Your REGION"
    /\ pc \in {"table", "lambdaRole", "dynamoPolicy", "cognitoPolicy", "logsPolicy",
               "lambdaFunction", "userPool", "userPoolClient", "authorizer",
               "identityPool", "authenticatedRole", "authenticatedPolicy",
               "roleAttachment", "addEnvironment"}
       \/ /\ lambdaFunction.environment["IDENTITY_POOL_ID"] = identityPool.ref
          /\ lambdaFunction.environment["IDENTITY_POOL_ID"] # "Your IDENTITY_POOL_ID"
          /\ authenticatedRole.assumedBy.conditions.StringEquals.value =
                lambdaFunction.environment["IDENTITY_POOL_ID"]
    /\ pc = "deployed" =>
          /\ "IdentityPoolId" \in DOMAIN outputs
          /\ outputs["IdentityPoolId"] = lambdaFunction.environment["IDENTITY_POOL_ID"]

\* C10 witness: the stack is deployed with the identity pool's identifier in
\* the function's environment.
IdentityPoolIdDeployed ==
    /\ pc = "deployed"
    /\ lambdaFunction.environment["IDENTITY_POOL_ID"] = Ref("IdentityPool")

=============================================================================
